---- MODULE Spec2Model ----
(***************************************************************************)
(* Model of the meeting-transcription session engine                       *)
(* (server/src/handlers/transcribe_meeting.ts).                            *)
(*                                                                         *)
(* transcribeMeetingChunk is an async function run by a single-threaded    *)
(* event loop.  One call is two atomic steps: the synchronous part up to   *)
(* the await inside processAudioChunk (action Call), and the continuation  *)
(* after the 10 ms timer (action Resume).  The eviction callback of        *)
(* setTimeout(..., 5000) is a third step (action Evict).                   *)
(*                                                                         *)
(* Strings that the code concatenates, trims or compares by content        *)
(* (tokens, accumulated_text) are sequences of one-character strings.      *)
(* Identifiers (session ids, workspace ids) are TLA+ strings; "" is the    *)
(* empty JavaScript string.                                                *)
(***************************************************************************)
EXTENDS Integers, Sequences, FiniteSets, TLC

\* ------------------------------------------------------------------ bounds
\* Most session objects ever created in one run.
MaxSessions == 3
\* Most chunks accepted in one run of Spec, over all sessions.
MaxChunks == 3
\* Most chunks accepted in one run of SpecStream.
MaxStreamChunks == 6
\* Most calls suspended at the classification await at the same time.
MaxPending == 2

\* ------------------------------------------------------------- JS values
Undefined == "undefined"
NoSession == 0

\* A byte sequence of n bytes, all equal to v: what the callers of this
\* model send.
Fill(n, v) == [i \in 1..n |-> v]

\* ----------------------------------------------------------- text values
EmptyText == << >>
Space == <<" ">>
Hello == <<"H","e","l","l","o">>
And == <<"a","n","d">>
Welcome == <<"W","e","l","c","o","m","e">>
Everyone == <<"e","v","e","r","y","o","n","e">>
GoodMorning == <<"G","o","o","d"," ","m","o","r","n","i","n","g">>
ToTheMeeting == <<"t","o"," ","t","h","e"," ","m","e","e","t","i","n","g">>
ThankYou == <<"T","h","a","n","k"," ","y","o","u">>
ForJoiningUsToday ==
    <<"f","o","r"," ","j","o","i","n","i","n","g"," ","u","s"," ","t","o","d","a","y">>

\* String.prototype.trim on a character sequence (only " " is whitespace
\* in the texts of this model).
RECURSIVE TrimLeft(_)
TrimLeft(s) == IF s # << >> /\ Head(s) = " " THEN TrimLeft(Tail(s)) ELSE s

RECURSIVE TrimRight(_)
TrimRight(s) ==
    IF s # << >> /\ s[Len(s)] = " " THEN TrimRight(SubSeq(s, 1, Len(s) - 1)) ELSE s

Trim(s) == TrimRight(TrimLeft(s))

\* s is a prefix of t (t.startsWith(s)).
IsPrefix(s, t) == Len(s) <= Len(t) /\ SubSeq(t, 1, Len(s)) = s

\* ------------------------------------------------------------ classifier
\* audioData.reduce((sum, byte) => sum + byte, 0): the sum of bytes[lo..hi].
\* The sums stay far below 2^53, so the additions are exact and their order
\* is free; the range is halved to keep the evaluation shallow.
RECURSIVE SumRange(_, _, _)
SumRange(bytes, lo, hi) ==
    IF lo > hi THEN 0
    ELSE IF lo = hi THEN bytes[lo]
    ELSE LET mid == (lo + hi) \div 2
         IN  SumRange(bytes, lo, mid) + SumRange(bytes, mid + 1, hi)

ByteSum(bytes) == SumRange(bytes, 1, Len(bytes))

MIN_CHUNK_SIZE == 100
FINAL_CHUNK_COUNT == 5
SILENCE_LEVEL == 10
LEVEL_LOW == 50
LEVEL_MID == 100
LEVEL_HIGH == 150

\* avgValue < bound, for avgValue = dataSum / dataSize with dataSize > 0.
\* The quotient of two small integers is compared with an integer, so the
\* floating-point comparison agrees with the exact one: sum < bound * size.
AvgBelow(bytes, bound) == ByteSum(bytes) < bound * Len(bytes)

\* Lines 132-150 without the size test of lines 138-140.
processAudioChunk_NoSizeTest(audioData, chunkNumber) ==
    IF AvgBelow(audioData, LEVEL_LOW)
    THEN (IF chunkNumber = 1 THEN Hello ELSE And)
    ELSE IF AvgBelow(audioData, LEVEL_MID)
         THEN (IF chunkNumber = 1 THEN Welcome ELSE Everyone)
    ELSE IF AvgBelow(audioData, LEVEL_HIGH)
         THEN (IF chunkNumber = 1 THEN GoodMorning ELSE ToTheMeeting)
    ELSE (IF chunkNumber = 1 THEN ThankYou ELSE ForJoiningUsToday)

\* Lines 132-150 with <= for < in the three level tests.
processAudioChunk_BoundaryLow(audioData, chunkNumber) ==
    IF Len(audioData) < MIN_CHUNK_SIZE THEN EmptyText
    ELSE IF ByteSum(audioData) <= LEVEL_LOW * Len(audioData)
         THEN (IF chunkNumber = 1 THEN Hello ELSE And)
    ELSE IF ByteSum(audioData) <= LEVEL_MID * Len(audioData)
         THEN (IF chunkNumber = 1 THEN Welcome ELSE Everyone)
    ELSE IF ByteSum(audioData) <= LEVEL_HIGH * Len(audioData)
         THEN (IF chunkNumber = 1 THEN GoodMorning ELSE ToTheMeeting)
    ELSE (IF chunkNumber = 1 THEN ThankYou ELSE ForJoiningUsToday)

\* The token processAudioChunk resolves to, once its 10 ms delay is over.
processAudioChunk(audioData, chunkNumber) ==
    IF Len(audioData) < MIN_CHUNK_SIZE THEN EmptyText
    ELSE IF AvgBelow(audioData, LEVEL_LOW)
         THEN (IF chunkNumber = 1 THEN Hello ELSE And)
    ELSE IF AvgBelow(audioData, LEVEL_MID)
         THEN (IF chunkNumber = 1 THEN Welcome ELSE Everyone)
    ELSE IF AvgBelow(audioData, LEVEL_HIGH)
         THEN (IF chunkNumber = 1 THEN GoodMorning ELSE ToTheMeeting)
    ELSE (IF chunkNumber = 1 THEN ThankYou ELSE ForJoiningUsToday)

\* Lines 154-163 with the cap one chunk late (> instead of >=).
shouldMarkAsFinal_CapLate(audioData, chunkCount) ==
    IF chunkCount > FINAL_CHUNK_COUNT THEN TRUE
    ELSE AvgBelow(audioData, SILENCE_LEVEL)

\* Lines 154-163 taking a fragment too short to classify as not silent.
shouldMarkAsFinal_SkipsShort(audioData, chunkCount) ==
    IF chunkCount >= FINAL_CHUNK_COUNT THEN TRUE
    ELSE Len(audioData) >= MIN_CHUNK_SIZE /\ AvgBelow(audioData, SILENCE_LEVEL)

\* Lines 154-163 with the cap at the fifth chunk only (=== instead of >=).
shouldMarkAsFinal_CapOnce(audioData, chunkCount) ==
    IF chunkCount = FINAL_CHUNK_COUNT THEN TRUE
    ELSE AvgBelow(audioData, SILENCE_LEVEL)

shouldMarkAsFinal(audioData, chunkCount) ==
    IF chunkCount >= FINAL_CHUNK_COUNT THEN TRUE
    ELSE AvgBelow(audioData, SILENCE_LEVEL)

\* Lines 99-103 assigning the token instead of appending it.
Accumulate_Overwrite(accumulated_text, chunkText) ==
    IF Trim(chunkText) # EmptyText THEN chunkText ELSE accumulated_text

\* Lines 99-103 joining with a space also when the text is empty.
Accumulate_LeadingSpace(accumulated_text, chunkText) ==
    IF Trim(chunkText) # EmptyText
    THEN accumulated_text \o Space \o chunkText
    ELSE accumulated_text

\* The new accumulated_text of lines 99-103.
Accumulate(accumulated_text, chunkText) ==
    IF Trim(chunkText) # EmptyText
    THEN (IF accumulated_text # EmptyText
          THEN accumulated_text \o Space \o chunkText
          ELSE chunkText)
    ELSE accumulated_text

\* ---------------------------------------------------------------- inputs
\* Workspace ids a caller may send; "" is the empty string.
WorkspaceIds == {"", "w1", "w2"}

\* Session ids callers invent themselves.
CallerIds == {"s1"}

\* The values randomUUID() returns, in the order it returns them: each is
\* new, and no caller sends one before it has been generated.
UUIDs == [i \in 1..MaxSessions |-> "u" \o ToString(i)]

SessionIds == CallerIds \cup {UUIDs[i] : i \in 1..Len(UUIDs)}

\* The binary buffers callers send, by name.  A request and a suspended
\* call hold a reference to the buffer (its name), as the code does.
U8(bytes) == [type |-> "Uint8Array", bytes |-> bytes]
AB(bytes) == [type |-> "ArrayBuffer", bytes |-> bytes]

Buffers ==
    [ silentByte |-> U8(<<0>>),                        \* one silent byte
      shortLoud  |-> U8(Fill(99, 128)),                \* short and loud
      longQuiet  |-> AB(Fill(50, 0) \o Fill(50, 19)),  \* long, mean 9.5
      longLoud   |-> AB(Fill(100, 200)),               \* long and loud
      emptyView  |-> U8(<< >>),                        \* zero length
      emptyBuf   |-> AB(<< >>) ]

\* The bytes of a buffer, and the bytes of the Uint8Array view on it.
Bytes(buffer) == Buffers[buffer].bytes

\* processAudioChunk and shouldMarkAsFinal are pure: their values on the
\* buffers and chunk numbers of the model, tabulated once.
MaxNumber == IF MaxChunks > MaxStreamChunks THEN MaxChunks ELSE MaxStreamChunks

Classified ==
    [buffer \in DOMAIN Buffers, number \in 0..MaxNumber |->
        [chunkText |-> processAudioChunk(Bytes(buffer), number),
         isFinal |-> shouldMarkAsFinal(Bytes(buffer), number)]]

\* Fragments the validation accepts.
ValidAudio == {"silentByte", "shortLoud", "longQuiet", "longLoud"}

\* Fragments it rejects: absent, or of zero length.
InvalidAudio == {Undefined, "emptyView", "emptyBuf"}

\* input.audio_chunk: absent, or a Uint8Array / ArrayBuffer.
AudioChunks == ValidAudio \cup InvalidAudio

\* The fragments the callers of Spec send: the rejected ones, a silent one
\* too short to classify and a loud one long enough.
CallAudio == {"silentByte", "longLoud"} \cup InvalidAudio

\* ----------------------------------------------------------------- state
VARIABLES
    transcriptionSessions,  \* the Map: session id -> session object (or none)
    heap,                   \* the session objects, in order of creation
    pending,                \* calls suspended at an await, in the order they began
    timers,                 \* eviction callbacks not yet run, in timer order
    nextUUID,               \* how many ids randomUUID() has returned
    hist,                   \* per session object: its key, what it returned
    last,                   \* what the latest step did and gave its caller
    db                      \* the relational store of the other handlers

vars == <<transcriptionSessions, heap, pending, timers, nextUUID, hist, last, db>>

\* The tables the handlers of this model read and write.  The transcription
\* engine never touches the database.
EmptyDb ==
    [workspaces |-> {}, users |-> {}, notes |-> {}, tasks |-> << >>,
     agent_events |-> << >>]

NoResult == [partial_transcript |-> EmptyText, session_id |-> "", is_final |-> FALSE]

ERR_AUDIO == "Audio chunk is required and cannot be empty"
ERR_WORKSPACE == "Workspace ID is required"
ERR_MISMATCH == "Session workspace_id mismatch"

\* The record of one step: op is "init", "throw" (a call rejected with
\* error), "call" (a call accepted and suspended), "return" (a call resumed
\* and returned result) or "evict" (an eviction callback ran); session and
\* position are the session object and the chunk number of the call,
\* audioData the buffer a returned call has processed.
Step(op, error, session, position, audioData, result) ==
    [op |-> op, error |-> error, session |-> session, position |-> position,
     audioData |-> audioData, result |-> result]

Init ==
    /\ transcriptionSessions = [id \in SessionIds |-> NoSession]
    /\ heap = << >>
    /\ pending = << >>
    /\ timers = << >>
    /\ nextUUID = 0
    /\ hist = << >>
    /\ last = Step("init", "", NoSession, 0, Undefined, NoResult)
    /\ db = EmptyDb

\* ------------------------------------------------------ transcribeMeetingChunk
\* Lines 54-56: byteLength of an ArrayBuffer, length of a Uint8Array.
ChunkSize(audio_chunk) == Len(Buffers[audio_chunk].bytes)

\* Lines 50-64 without the zero-length test of lines 58-60.
ValidationError_NoSizeTest(input) ==
    IF input.audio_chunk = Undefined THEN ERR_AUDIO
    ELSE IF input.workspace_id = "" THEN ERR_WORKSPACE
    ELSE ""

\* Lines 50-64: the error the validation throws, "" when it passes.
ValidationError(input) ==
    IF input.audio_chunk = Undefined THEN ERR_AUDIO
    ELSE IF ChunkSize(input.audio_chunk) = 0 THEN ERR_AUDIO
    ELSE IF input.workspace_id = "" THEN ERR_WORKSPACE
    ELSE ""

\* Line 67: a falsy session_id (undefined or "") asks for a generated one.
GeneratesId(input) == input.session_id \in {Undefined, ""}

\* Line 67 handing out the identifier generated last, once there is one.
ResolveSessionId_Reuses(input) ==
    IF GeneratesId(input)
    THEN UUIDs[IF nextUUID = 0 THEN 1 ELSE nextUUID]
    ELSE input.session_id

\* Line 67: the supplied id, or the next value of randomUUID().
ResolveSessionId(input) ==
    IF GeneratesId(input) THEN UUIDs[nextUUID + 1] ELSE input.session_id

\* Lines 70-72: the Uint8Array itself, or a view on the ArrayBuffer; either
\* way the same buffer.
AudioData(audio_chunk) == audio_chunk

\* Lines 77-82 starting the count at 1.
NewSession_CountOne(workspace_id) ==
    [workspace_id |-> workspace_id, accumulated_text |-> EmptyText, chunk_count |-> 1]

\* Lines 77-82.
NewSession(workspace_id) ==
    [workspace_id |-> workspace_id, accumulated_text |-> EmptyText, chunk_count |-> 0]

\* Line 75 never finding the session: every chunk starts a new one.
GetSession_AlwaysNew(sessionId) == NoSession

\* Line 75 falling back, for an id that is not stored, on a session stored
\* under another id.
GetSession_AnyStored(sessionId) ==
    IF transcriptionSessions[sessionId] # NoSession
    THEN transcriptionSessions[sessionId]
    ELSE IF \E id \in SessionIds : transcriptionSessions[id] # NoSession
         THEN transcriptionSessions[CHOOSE id \in SessionIds :
                                        transcriptionSessions[id] # NoSession]
         ELSE NoSession

\* Line 75.
GetSession(sessionId) == transcriptionSessions[sessionId]

\* Line 87 without the comparison: the check is missing.
WorkspaceMismatch_Missing(session_workspace_id, input_workspace_id) == FALSE

\* Line 87.
WorkspaceMismatch(session_workspace_id, input_workspace_id) ==
    session_workspace_id # input_workspace_id

\* Line 92 without the increment.
IncrementChunkCount_None(chunk_count) == chunk_count

\* Line 92 counting every chunk twice.
IncrementChunkCount_Twice(chunk_count) == chunk_count + 2

\* Line 92.
IncrementChunkCount(chunk_count) == chunk_count + 1

\* Chunks accepted so far, over all session objects.
RECURSIVE SumChunks(_)
SumChunks(h) == IF h = << >> THEN 0 ELSE Head(h).chunk_count + SumChunks(Tail(h))

TotalChunks == SumChunks(heap)

\* What the callers of one session object have seen of it: the key it was
\* stored under, how many calls it accepted and how many of them returned,
\* the transcript the latest of them returned, and the non-empty tokens of
\* the accepted calls in the order of their chunk numbers.
NewHistory(sessionId) ==
    [key |-> sessionId, accepted |-> 0, returns |-> 0, transcript |-> EmptyText,
     tokens |-> << >>, final |-> "none"]

\* Why chunks of a session object have returned final so far: "cap" once one
\* returned at a chunk_count from the cap of line 156 on, "silence" if only
\* by the test of line 162, "none" if none has.
FinalityCause(before, isFinal, chunk_count) ==
    IF ~isFinal THEN before
    ELSE IF chunk_count >= FINAL_CHUNK_COUNT \/ before = "cap" THEN "cap"
    ELSE "silence"

\* Lines 121-124: the call rejects; nothing was written before the throw.
Throw(error) ==
    /\ last' = Step("throw", error, NoSession, 0, Undefined, NoResult)
    /\ UNCHANGED <<transcriptionSessions, heap, pending, timers, nextUUID, hist, db>>

\* Lines 66-96: from the resolution of the session id to the await.
Process(input) ==
    LET sessionId == ResolveSessionId(input)
        found == GetSession(sessionId)
        session == IF found = NoSession THEN Len(heap) + 1 ELSE found
        heap1 == IF found = NoSession
                 THEN Append(heap, NewSession(input.workspace_id))
                 ELSE heap
    IN  \* A generated id is not stored, so its session is a new one.
        /\ GeneratesId(input) => Len(heap) < MaxSessions
        /\ found = NoSession => Len(heap) < MaxSessions
        /\ IF WorkspaceMismatch(heap1[session].workspace_id, input.workspace_id)
           THEN /\ Throw(ERR_MISMATCH)
           ELSE /\ Len(pending) < MaxPending
                /\ nextUUID' = IF GeneratesId(input) THEN nextUUID + 1 ELSE nextUUID
                /\ transcriptionSessions' =
                       [transcriptionSessions EXCEPT ![sessionId] = session]
                /\ heap' = [heap1 EXCEPT ![session].chunk_count =
                                IncrementChunkCount(heap1[session].chunk_count)]
                /\ hist' = LET hist1 == IF found = NoSession
                                         THEN Append(hist, NewHistory(sessionId))
                                         ELSE hist
                                token == Classified[AudioData(input.audio_chunk),
                                                    heap'[session].chunk_count].chunkText
                            IN  [hist1 EXCEPT
                                    ![session].accepted = @ + 1,
                                    ![session].tokens =
                                        IF token # EmptyText THEN Append(@, token) ELSE @]
                /\ pending' = Append(pending,
                       [sessionId |-> sessionId,
                        audioData |-> AudioData(input.audio_chunk),
                        session |-> session,
                        chunkNumber |-> heap'[session].chunk_count])
                /\ last' = Step("call", "", session,
                                heap'[session].chunk_count, Undefined, NoResult)
                /\ UNCHANGED <<timers, db>>

\* The synchronous part of one call with the given input: lines 47-96.
CallWith(input) ==
    IF ValidationError(input) # ""
    THEN Throw(ValidationError(input))
    ELSE Process(input)

\* A caller sends only ids it can know: its own, or generated ones it was given.
KnownIds == CallerIds \cup {UUIDs[i] : i \in 1..nextUUID}

Input(audio_chunk, workspace_id, session_id) ==
    [audio_chunk |-> audio_chunk, workspace_id |-> workspace_id,
     session_id |-> session_id]

\* Any caller, any input.
Call ==
    \E audio_chunk \in CallAudio, workspace_id \in WorkspaceIds,
       session_id \in {Undefined, ""} \cup KnownIds :
        /\ TotalChunks < MaxChunks
        /\ CallWith(Input(audio_chunk, workspace_id, session_id))

\* One client streaming the fragments of one meeting, with a stray request
\* of another workspace now and then.
StreamCall ==
    \E audio_chunk \in ValidAudio, workspace_id \in {"w1", "w2"} :
        /\ TotalChunks < MaxStreamChunks
        /\ workspace_id = "w2" => transcriptionSessions["s1"] # NoSession
        /\ CallWith(Input(audio_chunk, workspace_id, "s1"))

\* Lines 96-119 deleting the session at once when the chunk is final, instead
\* of setting the timer of lines 109-113.
Resume_DeletesAtOnce ==
    /\ pending # << >>
    /\ LET call == Head(pending)
           session == call.session
           chunkText == Classified[call.audioData, call.chunkNumber].chunkText
           text == Accumulate(heap[session].accumulated_text, chunkText)
           isFinal == Classified[call.audioData, heap[session].chunk_count].isFinal
           \* A 5000 ms timer set now runs after every 10 ms timer set before it.
           waited == [i \in 1..Len(timers) |->
                         [timers[i] EXCEPT !.wait = IF @ > 0 THEN @ - 1 ELSE 0]]
       IN  /\ pending' = Tail(pending)
           /\ heap' = [heap EXCEPT ![session].accumulated_text = text]
           /\ timers' = waited
           /\ hist' = [hist EXCEPT ![session].returns = @ + 1,
                                   ![session].transcript = text,
                                   ![session].final =
                                       FinalityCause(@, isFinal,
                                                     heap[session].chunk_count)]
           /\ last' = Step("return", "", session, call.chunkNumber, call.audioData,
                           [partial_transcript |-> text,
                            session_id |-> call.sessionId,
                            is_final |-> isFinal])
           /\ transcriptionSessions' =
                  IF isFinal
                  THEN [transcriptionSessions EXCEPT ![call.sessionId] = NoSession]
                  ELSE transcriptionSessions
           /\ UNCHANGED <<nextUUID, db>>

\* Lines 96-119 with the 10 ms timers running last set, first run.
Resume_LastFirst ==
    /\ pending # << >>
    /\ LET call == pending[Len(pending)]
           session == call.session
           chunkText == Classified[call.audioData, call.chunkNumber].chunkText
           text == Accumulate(heap[session].accumulated_text, chunkText)
           isFinal == Classified[call.audioData, heap[session].chunk_count].isFinal
           \* A 5000 ms timer set now runs after every 10 ms timer set before it.
           waited == [i \in 1..Len(timers) |->
                         [timers[i] EXCEPT !.wait = IF @ > 0 THEN @ - 1 ELSE 0]]
       IN  /\ pending' = SubSeq(pending, 1, Len(pending) - 1)
           /\ heap' = [heap EXCEPT ![session].accumulated_text = text]
           /\ timers' = IF isFinal
                        THEN Append(waited, [sessionId |-> call.sessionId,
                                             origin |-> session,
                                             wait |-> Len(pending) - 1])
                        ELSE waited
           /\ hist' = [hist EXCEPT ![session].returns = @ + 1,
                                   ![session].transcript = text,
                                   ![session].final =
                                       FinalityCause(@, isFinal,
                                                     heap[session].chunk_count)]
           /\ last' = Step("return", "", session, call.chunkNumber, call.audioData,
                           [partial_transcript |-> text,
                            session_id |-> call.sessionId,
                            is_final |-> isFinal])
           /\ UNCHANGED <<transcriptionSessions, nextUUID, db>>

\* The continuation of the head call: lines 96-119, with lines 132-150.
Resume ==
    /\ pending # << >>
    /\ LET call == Head(pending)
           session == call.session
           chunkText == Classified[call.audioData, call.chunkNumber].chunkText
           text == Accumulate(heap[session].accumulated_text, chunkText)
           isFinal == Classified[call.audioData, heap[session].chunk_count].isFinal
           \* A 5000 ms timer set now runs after every 10 ms timer set before it.
           waited == [i \in 1..Len(timers) |->
                         [timers[i] EXCEPT !.wait = IF @ > 0 THEN @ - 1 ELSE 0]]
       IN  /\ pending' = Tail(pending)
           /\ heap' = [heap EXCEPT ![session].accumulated_text = text]
           /\ timers' = IF isFinal
                        THEN Append(waited, [sessionId |-> call.sessionId,
                                             origin |-> session,
                                             wait |-> Len(pending) - 1])
                        ELSE waited
           /\ hist' = [hist EXCEPT ![session].returns = @ + 1,
                                   ![session].transcript = text,
                                   ![session].final =
                                       FinalityCause(@, isFinal,
                                                     heap[session].chunk_count)]
           /\ last' = Step("return", "", session, call.chunkNumber, call.audioData,
                           [partial_transcript |-> text,
                            session_id |-> call.sessionId,
                            is_final |-> isFinal])
           /\ UNCHANGED <<transcriptionSessions, nextUUID, db>>

\* The callback of lines 110-112 running without deleting anything.
Evict_KeepsSession ==
    /\ timers # << >>
    /\ Head(timers).wait = 0
    /\ LET timer == Head(timers)
       IN  /\ timers' = Tail(timers)
           /\ last' = Step("evict", "", timer.origin, 0, Undefined,
                           [NoResult EXCEPT !.session_id = timer.sessionId])
           /\ UNCHANGED <<transcriptionSessions, heap, pending, nextUUID, hist, db>>

\* The callback of lines 110-112 failing when the id is no longer stored.
Evict_ThrowsWhenAbsent ==
    /\ timers # << >>
    /\ Head(timers).wait = 0
    /\ LET timer == Head(timers)
           absent == transcriptionSessions[timer.sessionId] = NoSession
       IN  /\ transcriptionSessions' =
                  [transcriptionSessions EXCEPT ![timer.sessionId] = NoSession]
           /\ timers' = Tail(timers)
           /\ last' = Step("evict", IF absent THEN "Session not found" ELSE "",
                           timer.origin, 0, Undefined,
                           [NoResult EXCEPT !.session_id = timer.sessionId])
           /\ UNCHANGED <<heap, pending, nextUUID, hist, db>>

\* The eviction callback of lines 110-112.
Evict ==
    /\ timers # << >>
    /\ Head(timers).wait = 0
    /\ LET timer == Head(timers)
       IN  /\ transcriptionSessions' =
                  [transcriptionSessions EXCEPT ![timer.sessionId] = NoSession]
           /\ timers' = Tail(timers)
           /\ last' = Step("evict", "", timer.origin, 0, Undefined,
                           [NoResult EXCEPT !.session_id = timer.sessionId])
           /\ UNCHANGED <<heap, pending, nextUUID, hist, db>>

Next == Call \/ Resume \/ Evict

Spec == Init /\ [][Next]_vars

NextStream == StreamCall \/ Resume \/ Evict

SpecStream == Init /\ [][NextStream]_vars

\* The event loop runs every timer that is due: a suspended call resumes
\* when its 10 ms are over, an eviction callback runs when its 5 s are.
SpecStreamFair == SpecStream /\ WF_vars(Resume) /\ WF_vars(Evict)

\* ------------------------------------------- the classifier on its own
\* processAudioChunk and shouldMarkAsFinal applied to fragments around the
\* size limit and with means just below, at and just above each level.
MaxPosition == 6
FragmentSizes == {MIN_CHUNK_SIZE - 1, MIN_CHUNK_SIZE, MIN_CHUNK_SIZE + 1}
FragmentLevels == {SILENCE_LEVEL, LEVEL_LOW, LEVEL_MID, LEVEL_HIGH}

\* size bytes of value level, the last one moved by offset.
Fragment(size, level, offset) == Fill(size - 1, level) \o <<level + offset>>

Fragments ==
    { Fragment(size, level, offset) :
          size \in FragmentSizes, level \in FragmentLevels, offset \in {-1, 0, 1} }
    \cup { Fill(size, byte) : size \in FragmentSizes, byte \in {0, 255} }

\* A fragment and a position are given ...
InitClassify ==
    /\ transcriptionSessions = [id \in SessionIds |-> NoSession]
    /\ heap = << >>
    /\ pending = << >>
    /\ timers = << >>
    /\ nextUUID = 0
    /\ hist = << >>
    /\ db = EmptyDb
    /\ \E audioData \in Fragments, chunkNumber \in 1..MaxPosition :
          last = Step("input", "", NoSession, chunkNumber, audioData, NoResult)

\* ... and classified: lines 128-151 and 154-163.
Classify ==
    /\ last.op = "input"
    /\ last' = [last EXCEPT
                   !.op = "classified",
                   !.result = [partial_transcript |->
                                   processAudioChunk(last.audioData, last.position),
                               session_id |-> "",
                               is_final |->
                                   shouldMarkAsFinal(last.audioData, last.position)]]
    /\ UNCHANGED <<transcriptionSessions, heap, pending, timers, nextUUID, hist, db>>

SpecClassify == InitClassify /\ [][Classify]_vars

\* -------------------------------------------------------------- database
\* SQL NULL / JavaScript null.
Null == "null"

\* JavaScript truthiness of an optional string field (a || b, if (a)).
Truthy(value) == value \notin {Undefined, Null, ""}

\* a || b.
OrElse(value, default) == IF Truthy(value) THEN value ELSE default

\* No createTask call begins once this many tasks are stored.
MaxTasks == 2
\* Most rows createNote inserts in one run, createWorkspace and createUser.
MaxNewNotes == 1
MaxNewWorkspaces == 1
MaxNewUsers == 1

\* Outcome of one handler call: the error thrown ("" when it returned), the
\* input it was given and the value it returned.
DbStep(op, error, input, result) ==
    [op |-> op, error |-> error, input |-> input, result |-> result]

\* Two workspaces, two users and a note in each workspace, as the other
\* handlers have created them; rows are reduced to the columns read here.
SeedDb ==
    [EmptyDb EXCEPT
        !.workspaces = {"w1", "w2"},
        !.users = {[id |-> "a1", email |-> "a1@test.com"],
                   [id |-> "a2", email |-> "a2@test.com"]},
        !.notes = {[id |-> "n1", workspace_id |-> "w1"],
                   [id |-> "n2", workspace_id |-> "w2"]}]

InitDb ==
    /\ transcriptionSessions = [id \in SessionIds |-> NoSession]
    /\ heap = << >>
    /\ pending = << >>
    /\ timers = << >>
    /\ nextUUID = 0
    /\ hist = << >>
    /\ last = DbStep("init", "", Undefined, Undefined)
    /\ db = SeedDb

\* db.select().from(notesTable).where(eq(notesTable.id, id)).
SelectNote(id) == {note \in db.notes : note.id = id}

\* db.select().from(usersTable).where(eq(usersTable.id, id)).
SelectUser(id) == {user \in db.users : user.id = id}

\* create_task.ts lines 28-42 without the comparison of lines 39-41.
LinkedNoteError_AnyWorkspace(input) ==
    IF ~Truthy(input.linked_note_id) THEN ""
    ELSE IF SelectNote(input.linked_note_id) = {}
         THEN "Note with id " \o input.linked_note_id \o " not found"
    ELSE ""

\* create_task.ts lines 28-42: the error of the linked-note check, "" when
\* it passes or is skipped.
LinkedNoteError(input) ==
    IF ~Truthy(input.linked_note_id) THEN ""
    ELSE IF SelectNote(input.linked_note_id) = {}
         THEN "Note with id " \o input.linked_note_id \o " not found"
    ELSE IF (CHOOSE note \in SelectNote(input.linked_note_id) : TRUE).workspace_id
                # input.workspace_id
         THEN "Note " \o input.linked_note_id \o " does not belong to workspace "
                  \o input.workspace_id
    ELSE ""

\* create_task.ts lines 14-16: the error after the select on workspaces.
WorkspaceError(input) ==
    IF input.workspace_id \notin db.workspaces
    THEN "Workspace with id " \o input.workspace_id \o " not found"
    ELSE ""

\* create_task.ts lines 24-26: the error after the select on users.
AssigneeError(input) ==
    IF SelectUser(input.assignee_id) = {}
    THEN "User with id " \o input.assignee_id \o " not found"
    ELSE ""

\* create_task.ts lines 45-57: the row inserted (title, description, due_at
\* and the timestamps play no part in the checks and are left out); the id is
\* the database's defaultRandom(), here the number of the row.
NewTask(input) ==
    [id |-> Len(db.tasks) + 1,
     workspace_id |-> input.workspace_id,
     status |-> OrElse(input.status, "todo"),
     priority |-> OrElse(input.priority, "med"),
     assignee_id |-> input.assignee_id,
     linked_note_id |-> OrElse(input.linked_note_id, Null)]

\* A handler call suspended at an await of a query: its input and the query
\* it waits for.
Suspended(input, at) == [input |-> input, at |-> at]

Without(calls, i) == SubSeq(calls, 1, i - 1) \o SubSeq(calls, i + 1, Len(calls))

\* create_task.ts lines 6-12: the call begins, sends the select on
\* workspaces and waits for its rows.
createTask(input) ==
    /\ pending' = Append(pending, Suspended(input, "workspace"))
    /\ last' = DbStep("await", "", Undefined, Undefined)
    /\ UNCHANGED <<transcriptionSessions, heap, timers, nextUUID, hist, db>>

\* Lines 60-63: the call throws; nothing was written.
TaskThrows(i, error) ==
    /\ pending' = Without(pending, i)
    /\ last' = DbStep("createTask", error, pending[i].input, Undefined)
    /\ UNCHANGED <<transcriptionSessions, heap, timers, nextUUID, hist, db>>

\* The call sends its next query and waits again.
TaskAwaits(i, at) ==
    /\ pending' = [pending EXCEPT ![i].at = at]
    /\ last' = DbStep("await", "", Undefined, Undefined)
    /\ UNCHANGED <<transcriptionSessions, heap, timers, nextUUID, hist, db>>

\* create_task.ts lines 9-59, from one await to the next: the rows of the
\* query the call waits for arrive, read from the tables as they are now.
\* The insert cannot fail on a foreign key: the rows it refers to were seen
\* and no handler deletes a row.
createTaskResumes(i) ==
    LET input == pending[i].input
        at == pending[i].at
    IN  IF at = "workspace"
        THEN IF WorkspaceError(input) # ""
             THEN TaskThrows(i, WorkspaceError(input))
             ELSE TaskAwaits(i, "user")
        ELSE IF at = "user"
        THEN IF AssigneeError(input) # ""
             THEN TaskThrows(i, AssigneeError(input))
             ELSE TaskAwaits(i, IF Truthy(input.linked_note_id)
                                THEN "note" ELSE "insert")
        ELSE IF at = "note"
        THEN IF LinkedNoteError(input) # ""
             THEN TaskThrows(i, LinkedNoteError(input))
             ELSE TaskAwaits(i, "insert")
        ELSE /\ db' = [db EXCEPT !.tasks = Append(@, NewTask(input))]
             /\ pending' = Without(pending, i)
             /\ last' = DbStep("createTask", "", input, NewTask(input))
             /\ UNCHANGED <<transcriptionSessions, heap, timers, nextUUID, hist>>

\* The database answers the suspended calls in any order.
ResumeCreateTask == \E i \in 1..Len(pending) : createTaskResumes(i)

\* create_note.ts lines 5-32: one insert (columns not read by createTask are
\* left out); the id is the database's defaultRandom(), here the number of
\* the row.  The insert fails on a foreign key when the workspace or the
\* author does not exist.
createNote(input) ==
    /\ IF input.workspace_id \notin db.workspaces \/ SelectUser(input.created_by) = {}
       THEN /\ db' = db
            /\ last' = DbStep("createNote", "violates foreign key constraint",
                              input, Undefined)
       ELSE LET note == [id |-> "n" \o ToString(Cardinality(db.notes) + 1),
                         workspace_id |-> input.workspace_id]
            IN  /\ db' = [db EXCEPT !.notes = @ \cup {note}]
                /\ last' = DbStep("createNote", "", input, note)
    /\ UNCHANGED <<transcriptionSessions, heap, pending, timers, nextUUID, hist>>

\* part_002 lines 5-27: one insert; the insert fails on the foreign key when
\* the owner does not exist.
createWorkspace(input) ==
    /\ IF SelectUser(input.owner_id) = {}
       THEN /\ db' = db
            /\ last' = DbStep("createWorkspace", "violates foreign key constraint",
                              input, Undefined)
       ELSE LET id == "w" \o ToString(Cardinality(db.workspaces) + 1)
            IN  /\ db' = [db EXCEPT !.workspaces = @ \cup {id}]
                /\ last' = DbStep("createWorkspace", "", input, id)
    /\ UNCHANGED <<transcriptionSessions, heap, pending, timers, nextUUID, hist>>

\* createUser, as its tests have it: one insert; the id is the database's
\* defaultRandom(), here the number of the row; the insert fails on the
\* unique constraint when the email is stored already.
createUser(input) ==
    /\ IF \E user \in db.users : user.email = input.email
       THEN /\ db' = db
            /\ last' = DbStep("createUser",
                              "duplicate key value violates unique constraint",
                              input, Undefined)
       ELSE LET user == [id |-> "a" \o ToString(Cardinality(db.users) + 1),
                         email |-> input.email]
            IN  /\ db' = [db EXCEPT !.users = @ \cup {user}]
                /\ last' = DbStep("createUser", "", input, user)
    /\ UNCHANGED <<transcriptionSessions, heap, pending, timers, nextUUID, hist>>

\* A field of an update is provided when it is not undefined; null is a
\* value.
Provided(value) == value # Undefined

\* The stored task with the fields an updateTask input provides.
UpdatedTask(task, input) ==
    [task EXCEPT
        !.status = IF Provided(input.status) THEN input.status ELSE @,
        !.priority = IF Provided(input.priority) THEN input.priority ELSE @,
        !.assignee_id = IF Provided(input.assignee_id) THEN input.assignee_id ELSE @,
        !.linked_note_id =
            IF Provided(input.linked_note_id) THEN input.linked_note_id ELSE @]

TasksWithId(id) == {i \in 1..Len(db.tasks) : db.tasks[i].id = id}

\* updateTask, as its tests have it: it throws when no task has the id and
\* when the assignee or the note it names does not exist (foreign keys), and
\* else writes the provided fields on the task.  Whether it accepts a note
\* of another workspace than the task's is not known: it may write, it may
\* throw.
updateTask(input) ==
    /\ IF TasksWithId(input.id) = {}
       THEN /\ db' = db
            /\ last' = DbStep("updateTask",
                              "Task with id " \o ToString(input.id) \o " not found",
                              input, Undefined)
       ELSE IF \/ Provided(input.assignee_id) /\ SelectUser(input.assignee_id) = {}
               \/ /\ Provided(input.linked_note_id)
                  /\ input.linked_note_id # Null
                  /\ SelectNote(input.linked_note_id) = {}
       THEN /\ db' = db
            /\ last' = DbStep("updateTask", "violates foreign key constraint",
                              input, Undefined)
       ELSE LET i == CHOOSE i \in TasksWithId(input.id) : TRUE
                foreign == /\ Provided(input.linked_note_id)
                           /\ input.linked_note_id # Null
                           /\ \E note \in SelectNote(input.linked_note_id) :
                                 note.workspace_id # db.tasks[i].workspace_id
            IN  \/ /\ db' = [db EXCEPT !.tasks[i] = UpdatedTask(@, input)]
                   /\ last' = DbStep("updateTask", "", input,
                                     UpdatedTask(db.tasks[i], input))
                \/ /\ foreign
                   /\ db' = db
                   /\ last' = DbStep("updateTask",
                                     "Note does not belong to the workspace of the task",
                                     input, Undefined)
    /\ UNCHANGED <<transcriptionSessions, heap, pending, timers, nextUUID, hist>>

UpdateTaskInput(id, status, priority, assignee_id, linked_note_id) ==
    [id |-> id, status |-> status, priority |-> priority,
     assignee_id |-> assignee_id, linked_note_id |-> linked_note_id]

CreateTaskInput(workspace_id, status, priority, assignee_id, linked_note_id) ==
    [workspace_id |-> workspace_id, status |-> status, priority |-> priority,
     assignee_id |-> assignee_id, linked_note_id |-> linked_note_id]

\* Callers of createTask with every kind of reference: ids that exist, ids
\* that do not and ids that come to exist while the call waits, a note of
\* the same and of another workspace, none, the empty string.
CreateAnyTask ==
    \E workspace_id \in {"w1", "w3"}, assignee_id \in {"a1", "a3"},
       linked_note_id \in {Undefined, Null, "", "n1", "n2", "n3"} :
        /\ Len(db.tasks) < MaxTasks
        /\ Len(pending) < MaxPending
        /\ createTask(CreateTaskInput(workspace_id, Undefined, Undefined,
                                      assignee_id, linked_note_id))

CreateNote ==
    \E workspace_id \in {"w1", "w3"} :
        /\ Cardinality(db.notes) < Cardinality(SeedDb.notes) + MaxNewNotes
        /\ createNote([workspace_id |-> workspace_id, created_by |-> "a1"])

CreateWorkspace ==
    \E owner_id \in {"a1", "a9"} :
        /\ Cardinality(db.workspaces) < Cardinality(SeedDb.workspaces) + MaxNewWorkspaces
        /\ createWorkspace([owner_id |-> owner_id])

CreateUser ==
    \E email \in {"a1@test.com", "a3@test.com"} :
        /\ Cardinality(db.users) < Cardinality(SeedDb.users) + MaxNewUsers
        /\ createUser([email |-> email])

\* Updates of the linked note, on the first task and on a task that is not
\* stored: n1, a note of the task's workspace or of another one, a note
\* that does not exist, no note.
UpdateAnyTask ==
    \E id \in {1, MaxTasks + 1}, linked_note_id \in {Null, "n1", "n9"} :
        /\ Len(pending) < MaxPending
        /\ updateTask(UpdateTaskInput(id, Undefined, Undefined, Undefined,
                                   linked_note_id))

NextCreateTask ==
    \/ CreateAnyTask
    \/ ResumeCreateTask
    \/ CreateNote
    \/ CreateWorkspace
    \/ CreateUser
    \/ UpdateAnyTask

SpecCreateTask == InitDb /\ [][NextCreateTask]_vars

\* ---------------------------------------------------------------- getTasks
\* part_006 lines 12-27 without the priority condition of lines 21-23.
Conditions_NoPriority(task, query) ==
    /\ task.workspace_id = query.workspace_id
    /\ query.status # Undefined => task.status = query.status
    /\ query.assignee_id # Undefined => task.assignee_id = query.assignee_id

\* part_006 lines 12-27: and(...conditions) on one row.
Conditions(task, query) ==
    /\ task.workspace_id = query.workspace_id
    /\ query.status # Undefined => task.status = query.status
    /\ query.priority # Undefined => task.priority = query.priority
    /\ query.assignee_id # Undefined => task.assignee_id = query.assignee_id

\* part_006 lines 6-40: the rows selected, in table order.
getTasks(query) ==
    /\ last' = DbStep("getTasks", "", query,
                      SelectSeq(db.tasks, LAMBDA task : Conditions(task, query)))
    /\ UNCHANGED <<transcriptionSessions, heap, pending, timers, nextUUID, hist, db>>

\* One client creating tasks one after the other: tasks of both workspaces,
\* both users and different status and priority.
CreateFilterTask ==
    \E workspace_id \in {"w1", "w2"}, assignee_id \in {"a1", "a2"},
       status \in {Undefined, "done"}, priority \in {Undefined, "high"} :
        /\ Len(db.tasks) < MaxTasks
        /\ pending = << >>
        /\ createTask(CreateTaskInput(workspace_id, status, priority,
                                      assignee_id, Undefined))

GetTasks ==
    \E workspace_id \in {"w1", "w2", "w9"}, status \in {Undefined, "done"},
       priority \in {Undefined, "high"}, assignee_id \in {Undefined, "a1"} :
        getTasks([workspace_id |-> workspace_id, status |-> status,
                  priority |-> priority, assignee_id |-> assignee_id])

\* Updates of the fields getTasks filters on.
UpdateFilterTask ==
    \E id \in 1..(MaxTasks + 1), status \in {Undefined, "done"},
       priority \in {Undefined, "high"}, assignee_id \in {Undefined, "a2", "a9"} :
        updateTask(UpdateTaskInput(id, status, priority, assignee_id, Undefined))

NextGetTasks == CreateFilterTask \/ ResumeCreateTask \/ UpdateFilterTask \/ GetTasks

SpecGetTasks == InitDb /\ [][NextGetTasks]_vars

\* ---------------------------------------------------------- agent events
\* Most rows createAgentEvent inserts in one run.
MaxEvents == 2

\* JSON objects, by their text.  An object is truthy, the empty one too.
EmptyObject == "{}"
JsonObjects == {EmptyObject, "{sent:true}"}

\* part_006 lines 48-58: the row inserted; the id is the database's
\* defaultRandom(), here the number of the row.
NewAgentEvent(input) ==
    [id |-> Len(db.agent_events) + 1,
     workspace_id |-> input.workspace_id,
     agent |-> input.agent,
     action |-> input.action,
     input |-> input.input,
     output |-> OrElse(input.output, EmptyObject),
     status |-> OrElse(input.status, "draft")]

\* part_006 lines 45-71.  The insert fails on the foreign key when the
\* workspace does not exist.
createAgentEvent(input) ==
    /\ IF input.workspace_id \notin db.workspaces
       THEN /\ db' = db
            /\ last' = DbStep("createAgentEvent",
                              "violates foreign key constraint", input, Undefined)
       ELSE /\ db' = [db EXCEPT !.agent_events = Append(@, NewAgentEvent(input))]
            /\ last' = DbStep("createAgentEvent", "", input, NewAgentEvent(input))
    /\ UNCHANGED <<transcriptionSessions, heap, pending, timers, nextUUID, hist>>

\* Date.prototype.toISOString throws on an invalid date.
InvalidDate == "Invalid Date"

\* A string that is not well-formed UTF-16, by name: encodeURIComponent
\* throws on it.
LoneSurrogate == "\\uD800"

\* part_001 lines 24-65: the values of the row are built, toISOString
\* throwing on an invalid date; the row is inserted, the insert failing on
\* the foreign key when the workspace does not exist; then the link is
\* built (line 48), encodeURIComponent throwing on a title or description
\* that is not well-formed, the row staying inserted; else the draft is
\* returned.
createCalendarDraft(input) ==
    /\ IF InvalidDate \in {input.start, input.end}
       THEN /\ db' = db
            /\ last' = DbStep("createCalendarDraft", "Invalid time value",
                              input, Undefined)
       ELSE IF input.workspace_id \notin db.workspaces
       THEN /\ db' = db
            /\ last' = DbStep("createCalendarDraft",
                              "violates foreign key constraint", input, Undefined)
       ELSE LET agentEvent ==
                    [id |-> Len(db.agent_events) + 1,
                     workspace_id |-> input.workspace_id,
                     agent |-> "calendar_integration",
                     action |-> "create_draft_event",
                     input |-> "{title,start,end,attendees,description}",
                     output |-> EmptyObject,
                     status |-> "awaiting_confirmation"]
            IN  /\ db' = [db EXCEPT !.agent_events = Append(@, agentEvent)]
                /\ IF LoneSurrogate \in {input.title, OrElse(input.description, "")}
                   THEN last' = DbStep("createCalendarDraft", "URI malformed",
                                       input, Undefined)
                   ELSE last' = DbStep("createCalendarDraft", "", input,
                                       [id |-> agentEvent.id, status |-> "draft"])
    /\ UNCHANGED <<transcriptionSessions, heap, pending, timers, nextUUID, hist>>

\* part_005 lines 10-13: the columns of the SET clause,
\* { ...(input.output && { output }), ...(input.status && { status }) }.
SetColumns(input) ==
    (IF Truthy(input.output) THEN {"output"} ELSE {})
        \cup (IF Truthy(input.status) THEN {"status"} ELSE {})

\* The row after the UPDATE.
UpdatedEvent(event, input) ==
    [event EXCEPT
        !.output = IF "output" \in SetColumns(input) THEN input.output ELSE @,
        !.status = IF "status" \in SetColumns(input) THEN input.status ELSE @]

\* The rows the WHERE clause of line 14 selects.
EventsWithId(id) == {i \in 1..Len(db.agent_events) : db.agent_events[i].id = id}

ERR_NO_VALUES == "No values to set"

\* Line 19.
EventNotFound(id) == "Agent event with id " \o ToString(id) \o " not found"

\* part_005 lines 6-32.  An UPDATE with an empty SET clause is refused by
\* the query builder (or, built all the same, by the database as a syntax
\* error): the call throws before line 18 and no row is written.
confirmAgentEvent(input) ==
    /\ IF SetColumns(input) = {}
       THEN /\ db' = db
            /\ \E error \in {ERR_NO_VALUES, "syntax error at or near \"where\""} :
                  last' = DbStep("confirmAgentEvent", error, input, Undefined)
       ELSE IF EventsWithId(input.id) = {}
       THEN /\ db' = db
            /\ last' = DbStep("confirmAgentEvent", EventNotFound(input.id),
                              input, Undefined)
       ELSE /\ db' = [db EXCEPT !.agent_events =
                         [i \in 1..Len(@) |->
                             IF i \in EventsWithId(input.id)
                             THEN UpdatedEvent(@[i], input) ELSE @[i]]]
            /\ last' = DbStep("confirmAgentEvent", "", input,
                              UpdatedEvent(db.agent_events[
                                  CHOOSE i \in EventsWithId(input.id) : TRUE], input))
    /\ UNCHANGED <<transcriptionSessions, heap, pending, timers, nextUUID, hist>>

CreateAgentEvent ==
    \E workspace_id \in {"w1", "w9"}, output \in {Undefined} \cup JsonObjects,
       status \in {Undefined, "awaiting_confirmation"} :
        /\ Len(db.agent_events) < MaxEvents
        /\ createAgentEvent([workspace_id |-> workspace_id, agent |-> "calendar",
                             action |-> "draft_event", input |-> EmptyObject,
                             output |-> output, status |-> status])

ConfirmAgentEvent ==
    \E id \in 1..(MaxEvents + 1), output \in {Undefined} \cup JsonObjects,
       status \in {Undefined, "executed", "error"} :
        confirmAgentEvent([id |-> id, output |-> output, status |-> status])

CreateCalendarDraft ==
    \E workspace_id \in {"w1", "w9"}, start \in {"2024-01-01T10:00", InvalidDate},
       title \in {"Team sync", LoneSurrogate},
       description \in {Undefined, LoneSurrogate} :
        /\ Len(db.agent_events) < MaxEvents
        /\ createCalendarDraft([workspace_id |-> workspace_id, title |-> title,
                                description |-> description, start |-> start,
                                end |-> "2024-01-01T11:00"])

NextAgentEvents == CreateAgentEvent \/ CreateCalendarDraft \/ ConfirmAgentEvent

SpecAgentEvents == InitDb /\ [][NextAgentEvents]_vars

\* ---------------------------------------------------------------- claims
\* The inputs a caller can send in the current state.
Inputs ==
    { Input(a, w, id) : a \in CallAudio, w \in WorkspaceIds,
                        id \in {Undefined, ""} \cup KnownIds }

\* The store and everything a call could write, apart from its own outcome.
store == <<transcriptionSessions, heap, pending, timers, nextUUID, hist>>

\* The call that the step just taken has suspended (after a "call" step).
NewCall == pending'[Len(pending')]

\* C1: a call that passes validation and names a stored session with
\* another workspace_id than the stored one is rejected with the
\* workspace-mismatch error; the session's workspace_id, accumulated_text
\* and chunk_count stay as they were and no eviction timer is added.
C1_MismatchRejected ==
    [][\A input \in Inputs :
          ( /\ ValidationError(input) = ""
            /\ ~GeneratesId(input)
            /\ transcriptionSessions[input.session_id] # NoSession
            /\ heap[transcriptionSessions[input.session_id]].workspace_id
                   # input.workspace_id
            /\ CallWith(input) )
          => /\ last'.op = "throw"
             /\ last'.error = ERR_MISMATCH
             /\ heap' = heap
             /\ transcriptionSessions' = transcriptionSessions
             /\ timers' = timers
             /\ pending' = pending]_vars

C1_Witness ==
    /\ last.op = "throw"
    /\ last.error = ERR_MISMATCH
    /\ \E id \in SessionIds :
          /\ transcriptionSessions[id] # NoSession
          /\ heap[transcriptionSessions[id]].chunk_count > 0
          /\ heap[transcriptionSessions[id]].accumulated_text # EmptyText

\* C2: a call whose audio_chunk is absent or of zero length, or whose
\* workspace_id is empty, is rejected with an error and leaves the store as
\* it was: no session created, no field changed, no timer added, whether
\* the session_id it names is stored or not.
C2_InvalidInputRejected ==
    [][\A input \in Inputs :
          ( /\ \/ input.audio_chunk = Undefined
               \/ Len(Bytes(input.audio_chunk)) = 0
               \/ input.workspace_id = ""
            /\ CallWith(input) )
          => /\ last'.op = "throw"
             /\ last'.error \in {ERR_AUDIO, ERR_WORKSPACE}
             /\ store' = store]_vars

C2_Witness ==
    /\ last.op = "throw"
    /\ last.error \in {ERR_AUDIO, ERR_WORKSPACE}
    /\ \E id \in SessionIds : transcriptionSessions[id] # NoSession
    /\ \E id \in KnownIds : transcriptionSessions[id] = NoSession

\* C3: in every step the accumulated_text of every session object keeps its
\* former value as a prefix: no call shortens, clears or reorders it.
C3_TextOnlyGrows ==
    [][\A o \in 1..Len(heap) :
          IsPrefix(heap[o].accumulated_text, heap'[o].accumulated_text)]_vars

C3_Witness ==
    /\ last.op = "return"
    /\ last.position = 3
    /\ last.result.partial_transcript =
           ThankYou \o Space \o And \o Space \o ForJoiningUsToday

\* The session object stored under the id an input names (NoSession when
\* the id is to be generated or is not stored).
Stored(input) ==
    IF GeneratesId(input) THEN NoSession ELSE transcriptionSessions[input.session_id]

\* C4 as claimed: a call that passes validation and supplies a session_id
\* which an earlier call has returned, with the workspace_id of that call,
\* is accepted on the session object of that earlier call, at the chunk
\* number after that object's chunk_count.
C4_ContinuesAtAnyLaterMoment ==
    [][\A input \in Inputs :
          (ValidationError(input) = "" /\ ~GeneratesId(input) /\ CallWith(input))
          => \A o \in 1..Len(hist) :
                ( /\ hist[o].key = input.session_id
                  /\ hist[o].returns > 0
                  /\ heap[o].workspace_id = input.workspace_id )
                => /\ last'.op = "call"
                   /\ last'.session = o
                   /\ last'.position = heap[o].chunk_count + 1]_vars

\* C4 amended: such a call, made while the session object of the earlier
\* call is still the one stored under the id, is accepted on that object, at
\* the chunk number after its chunk_count and without a new session; and the
\* transcript a call returns starts with the transcript the latest earlier
\* call on its session object returned.
C4_ContinuesStoredSession ==
    [][ /\ \A input \in Inputs :
              ( /\ ValidationError(input) = ""
                /\ Stored(input) # NoSession
                /\ hist[Stored(input)].returns > 0
                /\ heap[Stored(input)].workspace_id = input.workspace_id
                /\ CallWith(input) )
              => /\ last'.op = "call"
                 /\ last'.session = Stored(input)
                 /\ last'.position = heap[Stored(input)].chunk_count + 1
                 /\ heap'[Stored(input)].chunk_count =
                        heap[Stored(input)].chunk_count + 1
                 /\ Len(heap') = Len(heap)
        /\ last'.op = "return"
              => IsPrefix(hist[last'.session].transcript,
                          last'.result.partial_transcript) ]_vars

C4_Witness ==
    /\ last.op = "return"
    /\ last.result.session_id = UUIDs[1]
    /\ last.position = 2
    /\ hist[last.session].returns = 2
    /\ last.result.partial_transcript = ThankYou \o Space \o ForJoiningUsToday

\* C5: a session leaves the store only in the eviction callback of a timer
\* that a final chunk of that very session object has set.
C5_RemovedOnlyByOwnEviction ==
    [][\A id \in SessionIds :
          (transcriptionSessions[id] # NoSession /\ transcriptionSessions'[id] = NoSession)
          => /\ last'.op = "evict"
             /\ last'.session = transcriptionSessions[id]]_vars

\* C6 as claimed: a call is accepted for a session id only with the
\* workspace_id of every session ever created under that id.
C6_BoundForEver ==
    [][\A input \in Inputs :
          (ValidationError(input) = "" /\ CallWith(input) /\ last'.op = "call")
          => \A o \in 1..Len(hist) :
                hist[o].key = NewCall.sessionId
                => heap[o].workspace_id = input.workspace_id]_vars

\* C6 amended: while the session created by the first chunk of an id is in
\* the store, a call is accepted for that id only with the workspace_id of
\* that session, and no step changes the workspace_id of a session object.
C6_BoundWhileStored ==
    [][ /\ \A input \in Inputs :
              ( /\ ValidationError(input) = ""
                /\ Stored(input) # NoSession
                /\ CallWith(input)
                /\ last'.op = "call" )
              => heap[Stored(input)].workspace_id = input.workspace_id
        /\ \A o \in 1..Len(heap) : heap'[o].workspace_id = heap[o].workspace_id ]_vars

C6_Witness ==
    /\ last.op = "call"
    /\ last.position = 2
    /\ last.session = 2
    /\ transcriptionSessions[hist[1].key] = 2

\* C7: a chunk whose chunk number (chunk_count after its increment) is 5 or
\* more returns is_final = true, whatever its bytes.
C7_FinalFromFifthChunk ==
    (last.op = "return" /\ last.position >= 5) => last.result.is_final

C7_Witness ==
    /\ last.op = "return"
    /\ last.position = 5
    /\ last.result.is_final
    /\ Len(Bytes(last.audioData)) = 99
    /\ ByteSum(Bytes(last.audioData)) >= 10 * Len(Bytes(last.audioData))

\* C8: a non-empty chunk with sum of bytes < 10 * length returns
\* is_final = true, at every chunk number and at every length.
C8_SilenceIsFinal ==
    ( /\ last.op = "return"
      /\ Len(Bytes(last.audioData)) > 0
      /\ ByteSum(Bytes(last.audioData)) < 10 * Len(Bytes(last.audioData)) )
    => last.result.is_final

C8_Witness ==
    /\ last.op = "return"
    /\ last.position = 1
    /\ Bytes(last.audioData) = <<0>>
    /\ last.result.is_final

\* C9: a chunk of 1 to 99 bytes that passes validation and the workspace
\* check is accepted, adds one to the chunk_count of its session and leaves
\* accumulated_text alone, when it is accepted and when it returns; the
\* transcript it returns is that unchanged text.
C9_ShortChunk ==
    [][ /\ \A input \in Inputs :
              ( /\ ValidationError(input) = ""
                /\ Len(Bytes(input.audio_chunk)) \in 1..99
                /\ Stored(input) # NoSession
                      => heap[Stored(input)].workspace_id = input.workspace_id
                /\ CallWith(input) )
              => /\ last'.op = "call"
                 /\ heap'[last'.session].chunk_count =
                        (IF Stored(input) # NoSession
                         THEN heap[Stored(input)].chunk_count ELSE 0) + 1
                 /\ heap'[last'.session].accumulated_text =
                        (IF Stored(input) # NoSession
                         THEN heap[Stored(input)].accumulated_text ELSE EmptyText)
        /\ (last'.op = "return" /\ Len(Bytes(last'.audioData)) \in 1..99)
              => /\ heap'[last'.session].accumulated_text =
                        heap[last'.session].accumulated_text
                 /\ heap'[last'.session].chunk_count =
                        heap[last'.session].chunk_count
                 /\ last'.result.partial_transcript =
                        heap[last'.session].accumulated_text
                 /\ last'.error = "" ]_vars

C9_Witness ==
    /\ last.op = "return"
    /\ Len(Bytes(last.audioData)) \in 1..99
    /\ last.position = 2
    /\ last.result.partial_transcript = ThankYou

\* The single-space join of a sequence of tokens.
RECURSIVE JoinTokens(_)
JoinTokens(tokens) ==
    IF tokens = << >> THEN EmptyText
    ELSE IF Len(tokens) = 1 THEN tokens[1]
    ELSE JoinTokens(SubSeq(tokens, 1, Len(tokens) - 1)) \o Space \o tokens[Len(tokens)]

\* The calls in flight on session object o, in the order they will resume.
InFlight(o) == SelectSeq(pending, LAMBDA call : call.session = o)

\* The calls among them that will contribute a token.
InFlightTokens(o) ==
    SelectSeq(InFlight(o),
              LAMBDA call :
                  processAudioChunk(Bytes(call.audioData), call.chunkNumber) # EmptyText)

\* C10: for every session object, whatever calls are in flight on it:
\* chunk_count is the number of calls accepted on it, the k calls in flight
\* hold the k distinct consecutive chunk numbers that end at chunk_count,
\* and accumulated_text is the join of the non-empty tokens of the accepted
\* calls that have returned, each once - so once all have returned, of all.
C10_NoLostIncrementOrToken ==
    \A o \in 1..Len(heap) :
        /\ heap[o].chunk_count = hist[o].accepted
        /\ \A j \in 1..Len(InFlight(o)) :
              InFlight(o)[j].chunkNumber = heap[o].chunk_count - Len(InFlight(o)) + j
        /\ heap[o].accumulated_text =
               JoinTokens(SubSeq(hist[o].tokens, 1,
                                 Len(hist[o].tokens) - Len(InFlightTokens(o))))

C10_Witness ==
    /\ last.op = "return"
    /\ last.position = 1
    /\ last.result.partial_transcript = ThankYou
    /\ Len(pending) = 1
    /\ pending[1].session = last.session
    /\ pending[1].chunkNumber = 2
    /\ processAudioChunk(Bytes(pending[1].audioData), 2) = ForJoiningUsToday
    /\ transcriptionSessions[last.result.session_id] = last.session

\* C11: calls in flight at the same time with the same session id, the
\* earliest of which found no session under the id and created one (it holds
\* chunk number 1), all work on that one session object: no second session
\* is created under the id while the first call is in flight.
C11_OneSessionPerId ==
    \A i, j \in 1..Len(pending) :
        ( /\ i < j
          /\ pending[i].sessionId = pending[j].sessionId
          /\ pending[i].chunkNumber = 1 )
        => pending[j].session = pending[i].session

\* The session id the step just taken worked for: the resolved id of an
\* accepted call, the id a returning call and an eviction callback hold; ""
\* for a rejected call.
StepId == IF last'.op = "call" THEN NewCall.sessionId ELSE last'.result.session_id

\* C12: a step taken for one session id (a call accepted, a call returning,
\* an eviction) leaves every other id as it was: stored or not stored, and
\* with the same workspace_id, accumulated_text and chunk_count.
C12_OtherSessionsUntouched ==
    [][\A id \in SessionIds \ {StepId} :
          /\ transcriptionSessions'[id] = transcriptionSessions[id]
          /\ transcriptionSessions[id] # NoSession
                => heap'[transcriptionSessions[id]] = heap[transcriptionSessions[id]]]_vars

C12_Witness ==
    /\ last.op = "return"
    /\ last.result.partial_transcript = ThankYou
    /\ transcriptionSessions[last.result.session_id] = last.session
    /\ Len(pending) = 1
    /\ pending[1].sessionId # last.result.session_id
    /\ transcriptionSessions[pending[1].sessionId] = pending[1].session
    /\ heap[pending[1].session].workspace_id # heap[last.session].workspace_id

\* C13: on a fragment of at least 100 bytes the classifier returns the
\* token of the table, read on integers (sum against level * length): below
\* 50 "Hello" at position 1 and "and" later, from 50 and below 100 "Welcome"
\* / "everyone", from 100 and below 150 "Good morning" / "to the meeting",
\* from 150 "Thank you" / "for joining us today".
C13_TokenOfTheTable ==
    (last.op = "classified" /\ Len(last.audioData) >= 100)
    => LET sum == ByteSum(last.audioData)
           length == Len(last.audioData)
           first == last.position = 1
           token == last.result.partial_transcript
       IN  /\ sum < 50 * length
                => token = IF first THEN Hello ELSE And
           /\ (50 * length <= sum /\ sum < 100 * length)
                => token = IF first THEN Welcome ELSE Everyone
           /\ (100 * length <= sum /\ sum < 150 * length)
                => token = IF first THEN GoodMorning ELSE ToTheMeeting
           /\ 150 * length <= sum
                => token = IF first THEN ThankYou ELSE ForJoiningUsToday

C13_Witness ==
    /\ last.op = "classified"
    /\ Len(last.audioData) = 101
    /\ ByteSum(last.audioData) = 100 * 101
    /\ last.position = 2
    /\ last.result.partial_transcript = ToTheMeeting

\* Session object o is not, or no longer, the session stored under its id.
Removed(o) == o <= Len(hist) /\ transcriptionSessions[hist[o].key] # o

\* C14: when a chunk has returned is_final = true on a stored session, that
\* session is removed from the store at some later moment, whatever chunks
\* arrive on it in between, provided the event loop runs the timers due.
C14_FinalEventuallyRemoved ==
    \A o \in 1..MaxSessions :
        (last.op = "return" /\ last.result.is_final /\ last.session = o /\ ~Removed(o))
        ~> Removed(o)

C14_Witness ==
    /\ last.op = "evict"
    /\ last.session = 1
    /\ Len(heap) = 1
    /\ heap[1].chunk_count = 3
    /\ heap[1].accumulated_text = ForJoiningUsToday \o Space \o ForJoiningUsToday
    /\ Removed(1)

\* C15: an accepted call whose input carries a session_id (any string, the
\* field not absent) works under that very id: it is the key of the session
\* the call is suspended on, and the id the call will return.
C15_SuppliedIdVerbatim ==
    [][\A input \in Inputs :
          ( /\ input.session_id # Undefined
            /\ ValidationError(input) = ""
            /\ CallWith(input)
            /\ last'.op = "call" )
          => /\ NewCall.sessionId = input.session_id
             /\ transcriptionSessions'[input.session_id] = last'.session]_vars

\* The note with the given id, when there is one.
NoteOf(id) == CHOOSE note \in db.notes : note.id = id

\* The references of a createTask input are sound: workspace and assignee
\* exist and the linked note, if one is given, exists in that workspace.
SoundReferences(input) ==
    /\ input.workspace_id \in db.workspaces
    /\ SelectUser(input.assignee_id) # {}
    /\ Truthy(input.linked_note_id)
          => /\ \E note \in db.notes : note.id = input.linked_note_id
             /\ NoteOf(input.linked_note_id).workspace_id = input.workspace_id

\* Every task linked to a note is in the workspace of that note.
NotesOfOwnWorkspace(tables) ==
    \A i \in 1..Len(tables.tasks) :
        tables.tasks[i].linked_note_id # Null
        => /\ \E note \in tables.notes : note.id = tables.tasks[i].linked_note_id
           /\ \A note \in tables.notes :
                 note.id = tables.tasks[i].linked_note_id
                 => note.workspace_id = tables.tasks[i].workspace_id

\* C16: a createTask call that returns has sound references at that moment
\* and has added one row, the task of its input, after the rows there were;
\* a call that throws has a reference that is not sound at that moment and
\* leaves the tasks table as it was; no step but the return of a createTask
\* and an updateTask writes the tasks table; and when every task linked to a
\* note is in the workspace of that note, it is so after every step of
\* createTask and of every handler but updateTask.
C16_TaskOnlyWithSoundReferences ==
    [][ /\ (last'.op = "createTask" /\ last'.error = "")
              => /\ SoundReferences(last'.input)
                 /\ Len(db'.tasks) = Len(db.tasks) + 1
                 /\ SubSeq(db'.tasks, 1, Len(db.tasks)) = db.tasks
                 /\ db'.tasks[Len(db'.tasks)] = last'.result
                 /\ last'.result.workspace_id = last'.input.workspace_id
                 /\ last'.result.assignee_id = last'.input.assignee_id
                 /\ last'.result.linked_note_id =
                        IF Truthy(last'.input.linked_note_id)
                        THEN last'.input.linked_note_id ELSE Null
        /\ (last'.op = "createTask" /\ last'.error # "")
              => /\ ~SoundReferences(last'.input)
                 /\ db'.tasks = db.tasks
        /\ last'.op \notin {"createTask", "updateTask"} => db'.tasks = db.tasks
        /\ (last'.op # "updateTask" /\ NotesOfOwnWorkspace(db))
              => NotesOfOwnWorkspace(db') ]_vars

\* A task linked to the note created after the seed has been inserted in
\* the workspace created after the seed, while another call has passed its
\* checks and waits for its insert.
C16_Witness ==
    /\ last.op = "createTask"
    /\ last.error = ""
    /\ last.result.linked_note_id = "n3"
    /\ last.result.workspace_id = "w3"
    /\ Len(pending) = 1
    /\ pending[1].at = "insert"
    /\ pending[1].input.linked_note_id = "n1"

\* C17: confirmAgentEvent, when an event has the given id, writes on that
\* event the provided fields and nothing else, every other event staying as
\* it was; when no event has the id it throws the not-found error and leaves
\* the table as it was.
C17_OnlyProvidedFields ==
    [][last'.op = "confirmAgentEvent"
          => LET input == last'.input
                 known == \E i \in 1..Len(db.agent_events) :
                              db.agent_events[i].id = input.id
             IN  /\ Len(db'.agent_events) = Len(db.agent_events)
                 /\ \A i \in 1..Len(db.agent_events) :
                       LET old == db.agent_events[i]
                           new == db'.agent_events[i]
                       IN  /\ old.id # input.id => new = old
                           /\ input.output = Undefined => new.output = old.output
                           /\ input.status = Undefined => new.status = old.status
                           /\ [new EXCEPT !.output = old.output, !.status = old.status]
                                  = old
                 /\ ~known => /\ last'.error = EventNotFound(input.id)
                              /\ db' = db]_vars

\* C18: getTasks returns each stored task of the query's workspace that
\* has the status, the priority and the assignee the query names (those it
\* names), once, and nothing else; nothing for a workspace that does not
\* exist; and it leaves the database as it was.
C18_ExactlyTheMatchingTasks ==
    [][last'.op = "getTasks"
          => LET query == last'.input
                 result == last'.result
                 returned(task) == \E j \in 1..Len(result) : result[j] = task
             IN  /\ last'.error = ""
                 /\ \A i \in 1..Len(db.tasks) :
                       returned(db.tasks[i])
                       <=> /\ db.tasks[i].workspace_id = query.workspace_id
                           /\ query.status = Undefined
                                \/ db.tasks[i].status = query.status
                           /\ query.priority = Undefined
                                \/ db.tasks[i].priority = query.priority
                           /\ query.assignee_id = Undefined
                                \/ db.tasks[i].assignee_id = query.assignee_id
                 /\ \A j \in 1..Len(result) :
                       /\ \E i \in 1..Len(db.tasks) : db.tasks[i] = result[j]
                       /\ result[j].workspace_id = query.workspace_id
                       /\ \A k \in 1..Len(result) : result[k] = result[j] => k = j
                 /\ query.workspace_id \notin db.workspaces => result = << >>
                 /\ db' = db]_vars

C18_Witness ==
    /\ last.op = "getTasks"
    /\ last.input = [workspace_id |-> "w1", status |-> "done", priority |-> "high",
                     assignee_id |-> "a1"]
    /\ Len(last.result) = 1
    /\ Len(db.tasks) = 2
    /\ \A i \in 1..2 : /\ db.tasks[i].workspace_id = "w1"
                       /\ db.tasks[i].status = "done"
                       /\ db.tasks[i].assignee_id = "a1"

\* C19: a chunk that was given a position below 5 and whose bytes have a
\* mean of at least 10 returns is_final = false, whatever other chunks of
\* its session are in flight.
C19_FinalityByOwnPosition ==
    ( /\ last.op = "return"
      /\ last.position < 5
      /\ ByteSum(Bytes(last.audioData)) >= 10 * Len(Bytes(last.audioData)) )
    => ~last.result.is_final

\* C20: an accepted call adds exactly one to the chunk_count of its session
\* object and is classified at the new count, which is 1 on a new session;
\* no other step changes a chunk_count, so none ever decreases; and the
\* chunk_count of every session object is the number of calls accepted on it.
C20_CountsAcceptedChunks ==
    [][ /\ \A o \in 1..Len(heap) : heap'[o].chunk_count >= heap[o].chunk_count
        /\ last'.op = "call"
              => LET o == last'.session
                     before == IF o <= Len(heap) THEN heap[o].chunk_count ELSE 0
                 IN  /\ heap'[o].chunk_count = before + 1
                     /\ NewCall.chunkNumber = before + 1
                     /\ last'.position = before + 1
                     /\ \A other \in 1..Len(heap) \ {o} :
                           heap'[other].chunk_count = heap[other].chunk_count
        /\ last'.op # "call"
              => /\ Len(heap') = Len(heap)
                 /\ \A o \in 1..Len(heap) : heap'[o].chunk_count = heap[o].chunk_count
        /\ \A o \in 1..Len(heap') : heap'[o].chunk_count = hist'[o].accepted ]_vars

C20_Witness ==
    /\ last.op = "call"
    /\ last.position = 4
    /\ heap[last.session].chunk_count = 4
    /\ Len(pending) = 2
    /\ hist[last.session].returns = 2
    /\ Len(heap) = 2

\* The calls in flight on session object o whose token is not empty.
TokensToCome(o) ==
    SelectSeq(pending,
              LAMBDA call : /\ call.session = o
                            /\ Classified[call.audioData, call.chunkNumber].chunkText
                                   # EmptyText)

\* The tokens appended so far to the text of session object o: the
\* non-empty tokens of its accepted calls, less those still in flight.
AppendedTokens(o) ==
    SubSeq(hist[o].tokens, 1, Len(hist[o].tokens) - Len(TokensToCome(o)))

\* No space at either end and no two spaces in a row.
WellSpaced(text) ==
    /\ text # EmptyText => (text[1] # " " /\ text[Len(text)] # " ")
    /\ \A i \in 1..(Len(text) - 1) : ~(text[i] = " " /\ text[i + 1] = " ")

\* C21: a returning chunk with a non-empty token makes accumulated_text the
\* token alone if the text was empty, else the text, one space, the token,
\* and a chunk with an empty token leaves it; and accumulated_text is always
\* the single-space join of the tokens appended so far, without a space at
\* either end and without two spaces in a row.
C21_SingleSpaceJoin ==
    [][ /\ last'.op = "return"
              => LET o == last'.session
                     token == Classified[last'.audioData, last'.position].chunkText
                     text == heap[o].accumulated_text
                 IN  heap'[o].accumulated_text =
                         IF token = EmptyText THEN text
                         ELSE IF text = EmptyText THEN token
                         ELSE text \o Space \o token
        /\ \A o \in 1..Len(heap') :
              /\ WellSpaced(heap'[o].accumulated_text)
              /\ heap'[o].accumulated_text = JoinTokens(AppendedTokens(o)') ]_vars

C21_Witness ==
    /\ last.op = "return"
    /\ last.position = 4
    /\ last.result.partial_transcript = Hello \o Space \o ForJoiningUsToday
    /\ heap[last.session].accumulated_text = last.result.partial_transcript

\* C22: a call that passes validation and whose session id is not in the
\* store (never used, evicted, or to be generated) creates a session object
\* with the workspace_id of the request, empty text and, after its one
\* increment, chunk_count 1, stores it under its id and is given position 1;
\* and a call of position 1 returns its own token as the transcript.
C22_NewSessionFromScratch ==
    [][ /\ \A input \in Inputs :
              ( /\ ValidationError(input) = ""
                /\ Stored(input) = NoSession
                /\ CallWith(input) )
              => /\ last'.op = "call"
                 /\ last'.session = Len(heap) + 1
                 /\ Len(heap') = Len(heap) + 1
                 /\ heap'[Len(heap')] =
                        [workspace_id |-> input.workspace_id,
                         accumulated_text |-> EmptyText,
                         chunk_count |-> 1]
                 /\ last'.position = 1
                 /\ NewCall.chunkNumber = 1
                 /\ transcriptionSessions'[NewCall.sessionId] = Len(heap')
        /\ (last'.op = "return" /\ last'.position = 1)
              => last'.result.partial_transcript =
                     Classified[last'.audioData, 1].chunkText ]_vars

C22_Witness ==
    /\ last.op = "return"
    /\ last.position = 1
    /\ last.session = 2
    /\ hist[2].key = hist[1].key
    /\ heap[1].accumulated_text = ThankYou
    /\ heap[1].workspace_id # heap[2].workspace_id
    /\ last.result.partial_transcript = ThankYou

\* C23: no step of a call (rejected, accepted, returning) takes a session
\* out of the store or replaces one; the only id a call adds is its own, when
\* it is accepted; and a call returning is_final = true leaves the map as it
\* is and sets one timer for its id.
C23_CallsNeverRemove ==
    [][last'.op \in {"throw", "call", "return"}
          => /\ \A id \in SessionIds :
                   /\ transcriptionSessions[id] # NoSession
                         => transcriptionSessions'[id] = transcriptionSessions[id]
                   /\ (transcriptionSessions[id] = NoSession
                          /\ transcriptionSessions'[id] # NoSession)
                         => (last'.op = "call" /\ id = StepId)
             /\ (last'.op = "return" /\ last'.result.is_final)
                   => /\ Len(timers') = Len(timers) + 1
                      /\ timers'[Len(timers')].sessionId = last'.result.session_id
             /\ (last'.op = "return" /\ ~last'.result.is_final)
                   => Len(timers') = Len(timers)]_vars

C23_Witness ==
    /\ last.op = "return"
    /\ last.result.is_final
    /\ transcriptionSessions[last.result.session_id] = last.session
    /\ Len(timers) = 1
    /\ timers[1].sessionId = last.result.session_id
    /\ Len(pending) = 1
    /\ pending[1].session = last.session

\* C24: an eviction callback that finds its id no longer stored changes
\* nothing of the store, of the sessions or of the calls in flight and raises
\* no error; every eviction callback ends without an error and removes
\* nothing but its own id, so several of them for one id are harmless.
C24_EvictionOfAbsentId ==
    [][last'.op = "evict"
          => LET id == last'.result.session_id
             IN  /\ last'.error = ""
                 /\ transcriptionSessions'[id] = NoSession
                 /\ \A other \in SessionIds \ {id} :
                       transcriptionSessions'[other] = transcriptionSessions[other]
                 /\ heap' = heap
                 /\ pending' = pending
                 /\ transcriptionSessions[id] = NoSession
                       => transcriptionSessions' = transcriptionSessions]_vars

\* Two final chunks on one session object set two timers for its id; both
\* have run, the second on an id that the first had removed.
C24_Witness ==
    /\ last.op = "evict"
    /\ last.error = ""
    /\ Len(heap) = 1
    /\ heap[1].chunk_count = 2
    /\ heap[1].accumulated_text = EmptyText
    /\ hist[1].returns = 2
    /\ timers = << >>
    /\ pending = << >>
    /\ \A id \in SessionIds : transcriptionSessions[id] = NoSession

\* C25: the chunks of a session object return in the order of their
\* positions, whatever calls are in flight together, and accumulated_text is
\* at every return the join of the tokens of a run of positions from the
\* first one on, in the order of the positions.
C25_TokensInPositionOrder ==
    [][last'.op = "return"
          => LET o == last'.session
             IN  /\ last'.position = hist[o].returns + 1
                 /\ \A call \in {pending[i] : i \in 1..Len(pending)} :
                       call.session = o => call.chunkNumber >= last'.position
                 /\ \E n \in 0..Len(hist'[o].tokens) :
                       heap'[o].accumulated_text =
                           JoinTokens(SubSeq(hist'[o].tokens, 1, n))]_vars

\* Chunks 1 and 2 of one session were in flight together, both with a
\* token; chunk 1 has returned with its token alone, chunk 2 is still to
\* return.
C25_Witness ==
    /\ last.op = "return"
    /\ last.position = 1
    /\ heap[last.session].chunk_count = 2
    /\ Len(pending) = 1
    /\ pending[1].session = last.session
    /\ pending[1].chunkNumber = 2
    /\ Len(hist[last.session].tokens) = 2
    /\ heap[last.session].accumulated_text = hist[last.session].tokens[1]

\* C26: a call that passes validation and omits session_id is accepted on a
\* session object of its own: its id is a non-empty generated identifier
\* under which nothing is stored and nothing was ever stored, every session
\* object that existed and every stored id keep their values, and the call
\* returns that id.
C26_OmittedIdIsFresh ==
    [][ /\ \A input \in Inputs :
              ( /\ input.session_id = Undefined
                /\ ValidationError(input) = ""
                /\ CallWith(input) )
              => /\ last'.op = "call"
                 /\ NewCall.sessionId \notin {Undefined, ""}
                 /\ NewCall.sessionId \in SessionIds \ CallerIds
                 /\ transcriptionSessions[NewCall.sessionId] = NoSession
                 /\ \A o \in 1..Len(hist) : hist[o].key # NewCall.sessionId
                 /\ \A id \in SessionIds \ {NewCall.sessionId} :
                       transcriptionSessions'[id] = transcriptionSessions[id]
                 /\ Len(heap') = Len(heap) + 1
                 /\ \A o \in 1..Len(heap) : heap'[o] = heap[o]
                 /\ transcriptionSessions'[NewCall.sessionId] = Len(heap')
                 /\ NewCall.session = Len(heap')
        /\ last'.op = "return"
              => last'.result.session_id = Head(pending).sessionId ]_vars

\* A second call without session_id has returned its generated id while a
\* session with text is stored under the first generated id.
C26_Witness ==
    /\ last.op = "return"
    /\ last.result.session_id = UUIDs[2]
    /\ last.session = 2
    /\ hist[1].key = UUIDs[1]
    /\ transcriptionSessions[UUIDs[1]] = 1
    /\ transcriptionSessions[UUIDs[2]] = 2
    /\ heap[1].accumulated_text # EmptyText
    /\ heap[1].chunk_count = 1
    /\ heap[2].chunk_count = 1

\* C27 as claimed: when a call has returned, the store holds under the
\* returned session_id the session object the call has updated, and that
\* object's accumulated_text is the returned partial_transcript.
C27_ReturnsOnStoredSession ==
    last.op = "return"
       => /\ transcriptionSessions[last.result.session_id] # NoSession
          /\ transcriptionSessions[last.result.session_id] = last.session
          /\ heap[transcriptionSessions[last.result.session_id]].accumulated_text
                 = last.result.partial_transcript

\* C28 as claimed: once a chunk of a session object has returned
\* is_final = true, every chunk returning later on that object returns
\* is_final = true.
C28_FinalityStable ==
    [][(last'.op = "return" /\ hist[last'.session].final # "none")
          => last'.result.is_final]_vars

\* C28: once a chunk of a session object has returned is_final = true at a
\* chunk_count of 5 or more, every chunk returning later on that object
\* returns is_final = true; a chunk final for its silence alone does not
\* make a later chunk final: that one is final exactly if it is silent itself
\* or returns at a chunk_count of 5 or more.
C28_CapFinalityStable ==
    [][last'.op = "return"
          => LET o == last'.session
             IN  /\ hist[o].final = "cap" => last'.result.is_final
                 /\ hist[o].final = "silence"
                       => (last'.result.is_final
                              <=> \/ heap[o].chunk_count >= FINAL_CHUNK_COUNT
                                  \/ Classified[last'.audioData, 1].isFinal)]_vars

\* The sixth chunk of a session, not silent, has returned final after the
\* fifth had returned final at the cap.
C28_Witness ==
    /\ last.op = "return"
    /\ last.position = 6
    /\ last.result.is_final
    /\ ~Classified[last.audioData, 1].isFinal
    /\ hist[last.session].final = "cap"
    /\ hist[last.session].returns = 6
    /\ transcriptionSessions[last.result.session_id] = last.session

\* C29: every fragment that processAudioChunk or shouldMarkAsFinal gets, for
\* a call suspended at the await or for the call that has just returned, is
\* a buffer of at least one byte, whether the caller sent a Uint8Array or an
\* ArrayBuffer: no mean is taken over zero bytes.
C29_MeanOverNonEmpty ==
    /\ \A i \in 1..Len(pending) :
          /\ pending[i].audioData \in DOMAIN Buffers
          /\ Len(Bytes(pending[i].audioData)) >= 1
    /\ last.op = "return"
          => /\ last.audioData \in DOMAIN Buffers
             /\ Len(Bytes(last.audioData)) >= 1

\* A call with an ArrayBuffer has returned while one with a Uint8Array is
\* suspended.
C29_Witness ==
    /\ last.op = "return"
    /\ Buffers[last.audioData].type = "ArrayBuffer"
    /\ Len(pending) = 1
    /\ Buffers[pending[1].audioData].type = "Uint8Array"
    /\ Len(Bytes(pending[1].audioData)) = 1

====
